---- MODULE Spec2Model ----
(***************************************************************************)
(* Model of the authenticated request engine and the token cache of        *)
(* plugins/module_utils/matrix_api.py (class MatrixAdminAPI).              *)
(*                                                                         *)
(* Python str values that are read or written character by character       *)
(* (tokens, file contents) are sequences of one-character strings; None is *)
(* the one-element sequence <<"None">>, which is no such string.  Other    *)
(* Python strings (user ids, endpoints, body texts) are TLA+ strings, and  *)
(* an absent one is NoValue.                                               *)
(***************************************************************************)
EXTENDS Integers, Sequences, FiniteSets, TLC

\* ------------------------------------------------------------------ bounds
MaxTokLen == 2
MaxWire == 4

\* ------------------------------------------------------------ value domains
\* the character sequences of the model, over two letters and the blank
Strings == UNION {[1..n -> {"a", "b", " "}] : n \in 0..MaxTokLen}

None == <<"None">>

NoValue == "<None>"

\* Python truthiness of a str-or-None held as a character sequence
Truthy(v) == v /= None /\ v /= <<>>

\* Python truthiness of a str-or-None held as a TLA+ string
TruthyStr(s) == s /= NoValue /\ s /= ""

UserIds == {"@admin:example.org", "@bot:example.org"}

Passwords == {"secret"}

\* __init__: the cache path of a session, NoValue without a user id;
\* user_hash is hashlib.md5(user_id.encode()).hexdigest()[:8] on the
\* modelled user ids
cache_path_of(u) ==
    LET user_hash == CASE u = "@admin:example.org" -> "db9f27a8"
                       [] u = "@bot:example.org" -> "ff6f4eb1"
    IN IF TruthyStr(u) THEN <<"/tmp/ansible-matrix-token-", user_hash>>
       ELSE <<NoValue>>

CachePaths == {cache_path_of(u) : u \in UserIds}

\* --------------------------------------------------------------- the files
OwnerOnly == 384

\* 0o666 masked by the process umask (0o022 or 0o077)
CreateModes == {420, 384}

NoFile == [exists |-> FALSE, content |-> <<>>, mode |-> 0]

\* str.strip(): drop leading and trailing whitespace
RECURSIVE LStrip(_)
LStrip(s) ==
    IF s /= <<>> /\ Head(s) = " " THEN LStrip(Tail(s)) ELSE s

RECURSIVE RStrip(_)
RStrip(s) ==
    IF s /= <<>> /\ s[Len(s)] = " "
    THEN RStrip(SubSeq(s, 1, Len(s) - 1)) ELSE s

Strip(s) == RStrip(LStrip(s))

\* variant: an existing file is opened without truncating it
OpenW_NoTrunc(f, cm) ==
    IF f.exists THEN f
    ELSE [exists |-> TRUE, content |-> <<>>, mode |-> cm]

\* open(path, 'w'): create with the umask's mode, or truncate what is there
OpenW(f, cm) ==
    IF f.exists THEN [f EXCEPT !.content = <<>>]
    ELSE [exists |-> TRUE, content |-> <<>>, mode |-> cm]

\* f.write(token), flushed when the with-block closes: one write at offset 0
\* of the writer's own file position
WriteAt0(f, data) ==
    [f EXCEPT !.content = data \o SubSeq(f.content, Len(data) + 1, Len(f.content))]

\* os.chmod(path, 0o600)
Chmod(f) == [f EXCEPT !.mode = OwnerOnly]

\* outcomes of the file operations of one save: all succeed, or the named
\* one raises (caught by the except clause, the later ones are skipped)
SaveOutcomes == {"ok", "open_raises", "write_raises"}

\* _save_cached_token run without interleaving: the file it leaves
SaveCachedToken(f, path, token, cm, io) ==
    IF path = <<NoValue>> \/ ~Truthy(token) THEN f
    ELSE CASE io = "open_raises" -> f
           [] io = "write_raises" -> OpenW(f, cm)
           [] OTHER -> Chmod(WriteAt0(OpenW(f, cm), token))

LoadOutcomes == {"ok", "read_raises"}

\* a read that raises leaves the session without a token
LoadCachedToken_ReadLosesToken(f, token, io) ==
    IF ~f.exists THEN token
    ELSE IF io = "read_raises" THEN <<>>
    ELSE IF Truthy(Strip(f.content)) THEN Strip(f.content) ELSE token

\* _load_cached_token run without interleaving: the session token it leaves
LoadCachedToken(f, token, io) ==
    IF ~f.exists \/ io = "read_raises" THEN token
    ELSE IF Truthy(Strip(f.content)) THEN Strip(f.content) ELSE token

\* ------------------------------------------------------ the request engine
VARIABLES access_token, user_id, password, reauthenticated,
          fs, pc, call, retry_auth, resp, wire, result, procs

vars == <<access_token, user_id, password, reauthenticated,
          fs, pc, call, retry_auth, resp, wire, result, procs>>

session == <<access_token, user_id, password, reauthenticated>>

\* the placeholder token "invalid_token_forced_failure"
Placeholder == <<"i", "n", "v", "a", "l", "i", "d", "_", "t", "o", "k", "e", "n", "_", "f", "o", "r", "c", "e", "d", "_", "f", "a", "i", "l", "u", "r", "e">>

SYNAPSE_API_BASE == "/_synapse/admin"

CLIENT_API_BASE == "/_matrix/client/v3"

Endpoints == {"server_version", "users/%40bot%3Aexample.org"}

\* the endpoints that post, put and delete are called on
WriteEndpoints == {"users/%40bot%3Aexample.org"}

AdminVersions == {"v1", "v2"}

ApiVersions == AdminVersions \cup {"client"}

\* decoded JSON values: a dict (or a list, of kind "list") with its items as
\* <<key, value>> pairs
Dict(items) == [kind |-> "dict", items |-> items]

\* the JSON texts of the model with the value json.loads gives for each
JsonTable ==
    { <<"{}", Dict({})>>,
      <<"{\"errcode\": \"M_UNKNOWN_TOKEN\"}", Dict({<<"errcode", "M_UNKNOWN_TOKEN">>})>>,
      <<"[]", [kind |-> "list", items |-> {}]>> }

JsonValid(text) == \E e \in JsonTable : e[1] = text

JsonLoads(text) == (CHOOSE e \in JsonTable : e[1] = text)[2]

JsonDumps(value) == (CHOOSE e \in JsonTable : e[2] = value)[1]

\* a request payload of None
NoData == [kind |-> "none", items |-> {}]

\* the request payloads callers pass: None, an empty dict, a dict
DataValues == {NoData, Dict({}), Dict({<<"errcode", "M_UNKNOWN_TOKEN">>})}

Statuses == {200, 401, 403, 404, -1}

\* fetch_url's (response, info): the response object is readable (with
\* what response.read() can give back), already read and closed (an
\* HTTPError), or None; info may carry a body
Responses ==
    [status : Statuses, response : {"readable"},
     text : {"{}", "{\"errcode\": \"M_UNKNOWN_TOKEN\"}", "<html>"},
     info_body : {NoValue}]
    \cup [status : Statuses, response : {"closed"}, text : {""},
          info_body : {NoValue, "{\"errcode\": \"M_UNKNOWN_TOKEN\"}"}]
    \cup [status : Statuses, response : {"none"}, text : {""},
          info_body : {NoValue, "{\"errcode\": \"M_UNKNOWN_TOKEN\"}", "<html>"}]

\* fetch_url's (response, info) for the login exchange. The body of a login
\* response once read is a dict with or without an access_token (the server
\* issues the tokens "a", "bb" and the empty one), a JSON value that is no
\* dict, or text that is no JSON
LoginResponses ==
    [status : {200, 403}, response : {"readable"},
     body : [fmt : {"dict"},
             access_token : {<<"a">>, <<"b", "b">>, <<>>, None}]
            \cup [fmt : {"list", "html"}, access_token : {None}]]
    \cup [status : {200, 403}, response : {"none"},
          body : {[fmt |-> "html", access_token |-> None]}]

\* _request, lines 116-119: the URL for an endpoint on an API surface
Url(endpoint, api_version) ==
    IF api_version = "client" THEN <<CLIENT_API_BASE, endpoint>>
    ELSE <<SYNAPSE_API_BASE, api_version, endpoint>>

\* _request, lines 121-134: the request handed to fetch_url
Request(c, token) ==
    [kind |-> "request", method |-> c.method,
     url |-> Url(c.endpoint, c.api_version),
     authorization |-> token,
     body |-> IF c.data /= NoData /\ c.data.items /= {}
             THEN JsonDumps(c.data) ELSE NoValue,
     user |-> NoValue, password |-> NoValue]

\* variant: the re-issued request reuses the header built before the login
RetryRequest_StaleToken(c, old_token, new_token) == Request(c, old_token)

\* _request, line 145: the re-issued request, built by the recursive call
\* from the session as login left it
RetryRequest(c, old_token, new_token) == Request(c, new_token)

\* login, lines 79-100: the login exchange handed to fetch_url
LoginRequest(u, p) ==
    [kind |-> "login", method |-> "POST", url |-> <<CLIENT_API_BASE, "login">>,
     authorization |-> <<"-">>, body |-> "m.login.password",
     user |-> u, password |-> p]

\* _request, lines 147-158: the decoded body of a response
DecodeBody(r) ==
    IF r.response /= "none"
    THEN IF r.response = "readable" /\ JsonValid(r.text)
         THEN JsonLoads(r.text) ELSE Dict({})
    ELSE IF r.info_body = NoValue THEN Dict({})
         ELSE IF JsonValid(r.info_body) THEN JsonLoads(r.info_body)
              ELSE Dict({<<"raw", r.info_body>>})

\* _request, lines 136 and 160-164: the result handed to the caller
Result(r, c) ==
    [status_code |-> r.status, body |-> DecodeBody(r),
     url |-> Url(c.endpoint, c.api_version)]

\* variant: the status of the login response is not checked
LoginReturnsTrue_AnyStatus(l) ==
    l.response = "readable" /\ l.body.fmt = "dict"

\* login, lines 102-112: whether login() returns True
LoginReturnsTrue(l) ==
    l.status = 200 /\ l.response = "readable" /\ l.body.fmt = "dict"

\* variant: the re-entry guard retry_auth is not consulted
NeedsRelogin_NoGuard(r, retry, u, p) ==
    r.status \in {401, 403} /\ TruthyStr(u) /\ TruthyStr(p)

\* variant: only the user id is required, not the password
NeedsRelogin_UserOnly(r, retry, u, p) ==
    r.status \in {401, 403} /\ retry /\ TruthyStr(u)

\* variant: every status other than 200 starts the re-login
NeedsRelogin_AnyError(r, retry, u, p) ==
    r.status /= 200 /\ retry /\ TruthyStr(u) /\ TruthyStr(p)

\* _request, lines 139-140: whether a response starts the re-login
NeedsRelogin(r, retry, u, p) ==
    r.status \in {401, 403} /\ retry /\ TruthyStr(u) /\ TruthyStr(p)

NoCall == [method |-> "-", endpoint |-> "-", data |-> NoData, api_version |-> "-"]

NoResponse == [status |-> 0, response |-> "none", text |-> "", info_body |-> NoValue]

NoResult == [status_code |-> 0, body |-> Dict({}), url |-> <<>>]

\* the token test made without the placeholder comparison
UsesCache_NoPlaceholder(tok, u) ==
    ~Truthy(tok) /\ cache_path_of(u) /= <<NoValue>>

\* __init__, lines 48-49: the cache is consulted when the supplied token is
\* empty or the placeholder, and _load_cached_token (line 54) has a path
UsesCache(tok, u) ==
    (~Truthy(tok) \/ tok = Placeholder) /\ cache_path_of(u) /= <<NoValue>>

\* __init__, lines 32-50: a module invocation constructs its session; the
\* token is taken from the cache when it is empty or the placeholder
Construct(tok, u, p, io) ==
    /\ pc \in {"start", "idle"}
    /\ access_token' =
          IF UsesCache(tok, u)
          THEN LoadCachedToken(fs[cache_path_of(u)], tok, io)
          ELSE tok
    /\ user_id' = u
    /\ password' = p
    /\ reauthenticated' = FALSE
    /\ pc' = "idle"
    /\ call' = NoCall
    /\ retry_auth' = TRUE
    /\ resp' = NoResponse
    /\ wire' = <<>>
    /\ result' = NoResult
    /\ UNCHANGED <<fs, procs>>

\* _request, lines 114-134: up to the return of fetch_url
Enter(method, endpoint, data, api_version) ==
    /\ call' = [method |-> method, endpoint |-> endpoint, data |-> data,
                api_version |-> api_version]
    /\ retry_auth' = TRUE
    /\ wire' = <<Request(call', access_token)>>
    /\ pc' = "request"
    /\ resp' = NoResponse
    /\ result' = NoResult
    /\ UNCHANGED <<session, fs, procs>>

\* get, lines 166-167
Get(endpoint, api_version) ==
    /\ pc = "idle"
    /\ Enter("GET", endpoint, NoData, api_version)

\* post, lines 169-170
Post(endpoint, data, api_version) ==
    /\ pc = "idle"
    /\ Enter("POST", endpoint, data, api_version)

\* put, lines 172-173
Put(endpoint, data, api_version) ==
    /\ pc = "idle"
    /\ Enter("PUT", endpoint, data, api_version)

\* delete, lines 175-176
Delete(endpoint, data, api_version) ==
    /\ pc = "idle"
    /\ Enter("DELETE", endpoint, data, api_version)

\* _request, lines 136-164, when fetch_url returns r: either the re-login is
\* started (login up to its fetch_url) or the result goes to the caller
Respond(r) ==
    /\ pc = "request"
    /\ IF NeedsRelogin(r, retry_auth, user_id, password)
       THEN /\ Len(wire) < MaxWire
            /\ resp' = r
            /\ wire' = Append(wire, LoginRequest(user_id, password))
            /\ pc' = "login"
            /\ UNCHANGED result
       ELSE /\ result' = Result(r, call)
            /\ pc' = "done"
            /\ UNCHANGED <<resp, wire>>
    /\ UNCHANGED <<session, fs, call, retry_auth, procs>>

\* login, lines 102-109, returns True on response l, then _request, lines
\* 142-145: the token is replaced and saved, the flag is set and the request
\* is re-issued with retry_auth=False
LoginSucceeded(l, cm, io) ==
    /\ pc = "login"
    /\ LoginReturnsTrue(l)
    /\ Len(wire) < MaxWire
    /\ access_token' = l.body.access_token
    /\ fs' = IF cache_path_of(user_id) = <<NoValue>> THEN fs
             ELSE [fs EXCEPT ![cache_path_of(user_id)] =
                     SaveCachedToken(@, cache_path_of(user_id),
                                     l.body.access_token, cm, io)]
    /\ reauthenticated' = TRUE
    /\ retry_auth' = FALSE
    /\ wire' = Append(wire, RetryRequest(call, access_token, access_token'))
    /\ pc' = "request"
    /\ resp' = NoResponse
    /\ UNCHANGED <<user_id, password, call, result, procs>>

\* login, lines 102-112, returns False on response l, then _request, lines
\* 147-164: the first response is decoded and returned
LoginFailed(l) ==
    /\ pc = "login"
    /\ ~LoginReturnsTrue(l)
    /\ result' = Result(resp, call)
    /\ pc' = "done"
    /\ resp' = NoResponse
    /\ UNCHANGED <<session, fs, call, retry_auth, wire, procs>>

\* the caller takes the result of get/post/put/delete
Return ==
    /\ pc = "done"
    /\ pc' = "idle"
    /\ call' = NoCall
    /\ wire' = <<>>
    /\ result' = NoResult
    /\ UNCHANGED <<session, fs, retry_auth, resp, procs>>

Init ==
    /\ access_token = <<>>
    /\ user_id = NoValue
    /\ password = NoValue
    /\ reauthenticated = FALSE
    /\ fs = [path \in CachePaths |-> NoFile]
    /\ pc = "start"
    /\ call = NoCall
    /\ retry_auth = TRUE
    /\ resp = NoResponse
    /\ wire = <<>>
    /\ result = NoResult
    /\ procs = <<>>

\* the access_token parameter of a module invocation
SuppliedTokens == {<<>>, Placeholder, <<"a">>}

\* the user_id parameter of a module invocation
SuppliedUsers == {NoValue, "@admin:example.org"}

Next ==
    \/ \E tok \in SuppliedTokens, u \in SuppliedUsers,
          p \in Passwords \cup {NoValue}, io \in LoadOutcomes :
          Construct(tok, u, p, io)
    \/ \E e \in Endpoints, v \in ApiVersions : Get(e, v)
    \/ \E e \in WriteEndpoints, d \in DataValues, v \in AdminVersions : Post(e, d, v)
    \/ \E e \in WriteEndpoints, d \in DataValues, v \in AdminVersions : Put(e, d, v)
    \/ \E e \in WriteEndpoints, d \in DataValues, v \in AdminVersions : Delete(e, d, v)
    \/ \E r \in Responses : Respond(r)
    \/ \E l \in LoginResponses, cm \in CreateModes, io \in SaveOutcomes :
          LoginSucceeded(l, cm, io)
    \/ \E l \in LoginResponses : LoginFailed(l)
    \/ Return

Spec == Init /\ [][Next]_vars

engine == <<access_token, user_id, password, reauthenticated,
            pc, call, retry_auth, resp, wire, result>>

EngineIdle ==
    /\ access_token = <<>>
    /\ user_id = NoValue
    /\ password = NoValue
    /\ reauthenticated = FALSE
    /\ pc = "start"
    /\ call = NoCall
    /\ retry_auth = TRUE
    /\ resp = NoResponse
    /\ wire = <<>>
    /\ result = NoResult

\* ------------------------------------------- the cache file, step by step
\* Processes of independent module invocations that share one cache file:
\* two run _save_cached_token, one runs _load_cached_token, and "prev" is an
\* earlier invocation whose save has completed.
Writers == {"w1", "w2"}

Readers == {"r1"}

CacheUser == "@admin:example.org"

CachePath == cache_path_of(CacheUser)

\* the tokens the concurrent writers hold (the last one empty)
CacheTokens == {<<"a", "a">>, <<"b">>, <<>>}

\* _save_cached_token, lines 67-68: nothing is written for an empty token
Save_Guard(p, t) ==
    /\ p \in Writers
    /\ procs[p].pc = "idle"
    /\ procs' = [procs EXCEPT ![p] =
                   [pc |-> IF CachePath = <<NoValue>> \/ ~Truthy(t)
                           THEN "done" ELSE "open",
                    token |-> t, loaded |-> None]]
    /\ UNCHANGED <<fs, engine>>

\* _save_cached_token, line 71: open(path, 'w')
Save_Open(p, cm) ==
    /\ procs[p].pc = "open"
    /\ fs' = [fs EXCEPT ![CachePath] = OpenW(@, cm)]
    /\ procs' = [procs EXCEPT ![p].pc = "write"]
    /\ UNCHANGED engine

\* _save_cached_token, line 72 and the end of the with-block
Save_Write(p) ==
    /\ procs[p].pc = "write"
    /\ fs' = [fs EXCEPT ![CachePath] = WriteAt0(@, procs[p].token)]
    /\ procs' = [procs EXCEPT ![p].pc = "chmod"]
    /\ UNCHANGED engine

\* _save_cached_token, line 73
Save_Chmod(p) ==
    /\ procs[p].pc = "chmod"
    /\ fs' = [fs EXCEPT ![CachePath] = Chmod(@)]
    /\ procs' = [procs EXCEPT ![p].pc = "done"]
    /\ UNCHANGED engine

\* _load_cached_token, line 55: os.path.exists
Load_Exists(p) ==
    /\ p \in Readers
    /\ procs[p].pc = "idle"
    /\ procs' = [procs EXCEPT ![p].pc =
                   IF fs[CachePath].exists THEN "read" ELSE "done"]
    /\ UNCHANGED <<fs, engine>>

\* _load_cached_token, lines 57-61: read, strip and keep a non-empty token
Load_Read(p) ==
    /\ procs[p].pc = "read"
    /\ procs' = [procs EXCEPT ![p] =
                   [pc |-> "done", token |-> None,
                    loaded |-> LoadCachedToken(fs[CachePath], None, "ok")]]
    /\ UNCHANGED <<fs, engine>>

CacheInit ==
    /\ EngineIdle
    /\ \E t0 \in CacheTokens :
          /\ procs = [p \in {"prev"} \cup Writers \cup Readers |->
                        IF p = "prev"
                        THEN [pc |-> "done", token |-> t0, loaded |-> None]
                        ELSE [pc |-> "idle", token |-> None, loaded |-> None]]
          /\ fs = [path \in CachePaths |->
                     IF path = CachePath
                     THEN SaveCachedToken(NoFile, path, t0, OwnerOnly, "ok")
                     ELSE NoFile]

CacheNext ==
    \/ \E p \in Writers, t \in CacheTokens : Save_Guard(p, t)
    \/ \E p \in Writers, cm \in CreateModes : Save_Open(p, cm)
    \/ \E p \in Writers : Save_Write(p)
    \/ \E p \in Writers : Save_Chmod(p)
    \/ \E p \in Readers : Load_Exists(p)
    \/ \E p \in Readers : Load_Read(p)

SpecCache == CacheInit /\ [][CacheNext]_vars

\* ------------------------------------------ the cache file, save then load
\* One invocation saves a token for an identity and a later one loads for an
\* identity, with nothing else running; earlier completed saves may have left
\* files behind.
\* _save_cached_token, lines 65-75, as a whole
Seq_Save(u, t, cm, io) ==
    /\ procs.pc = "start"
    /\ fs' = [fs EXCEPT ![cache_path_of(u)] =
                SaveCachedToken(@, cache_path_of(u), t, cm, io)]
    /\ procs' = [procs EXCEPT !.pc = "saved", !.user = u, !.token = t,
                              !.save_io = io]
    /\ UNCHANGED engine

\* _load_cached_token, lines 52-63, as a whole, in a session without a token
Seq_Load(u, io) ==
    /\ procs.pc = "saved"
    /\ procs' = [procs EXCEPT !.pc = "loaded", !.load_user = u, !.load_io = io,
                   !.loaded = LoadCachedToken(fs[cache_path_of(u)], None, io)]
    /\ UNCHANGED <<fs, engine>>

\* nothing saved or loaded yet; the files are those that completed saves of
\* earlier invocations leave behind
SeqInit ==
    /\ EngineIdle
    /\ procs = [pc |-> "start", user |-> NoValue, token |-> None, save_io |-> "ok",
                load_user |-> NoValue, load_io |-> "ok", loaded |-> None]
    /\ fs \in [CachePaths ->
                 {NoFile} \cup {SaveCachedToken(NoFile, CachePath, t, OwnerOnly, "ok") :
                                  t \in Strings \ {<<>>}}]

SeqNext ==
    \/ \E u \in UserIds, t \in Strings, cm \in CreateModes,
          io \in SaveOutcomes : Seq_Save(u, t, cm, io)
    \/ \E u \in UserIds, io \in LoadOutcomes : Seq_Load(u, io)

SpecSeq == SeqInit /\ [][SeqNext]_vars

\* ------------------------------------------------ the modules' own steps
\* The specifications below run code that touches neither a session of the
\* request engine nor the cache files: both stay as constructed.
untouched == <<engine, fs>>

Untouched == EngineIdle /\ fs = [path \in CachePaths |-> NoFile]

\* ------------------------------------------- response decoding, both engines
\* the raw-text fallback is replaced by the empty dict
ClientDecodeBody_NoRaw(r) ==
    IF r.response /= "none"
    THEN IF r.response = "readable" /\ JsonValid(r.text)
         THEN JsonLoads(r.text) ELSE Dict({})
    ELSE IF r.info_body = NoValue THEN Dict({})
         ELSE IF JsonValid(r.info_body) THEN JsonLoads(r.info_body)
              ELSE Dict({})

\* MatrixClientAPI._request, lines 76-87: the decoded body of a response
ClientDecodeBody(r) ==
    IF r.response /= "none"
    THEN IF r.response = "readable" /\ JsonValid(r.text)
         THEN JsonLoads(r.text) ELSE Dict({})
    ELSE IF r.info_body = NoValue THEN Dict({})
         ELSE IF JsonValid(r.info_body) THEN JsonLoads(r.info_body)
              ELSE Dict({<<"raw", r.info_body>>})

\* MatrixClientAPI._request, lines 57, 74 and 89-93: the result handed back
ClientResult(r, endpoint) ==
    [status_code |-> r.status, body |-> ClientDecodeBody(r),
     url |-> <<CLIENT_API_BASE, endpoint>>]

\* fetch_url's (response, info) for a body of any of the texts, whichever
\* way the installed fetch_url hands an HTTP error back
DecodeResponses ==
    Responses
    \cup [status : Statuses, response : {"closed", "none"}, text : {""},
          info_body : {"<html>", "{}"}]

\* the body text the server sent with response r, NoValue when fetch_url
\* hands none back
BodyText(r) == IF r.response = "readable" THEN r.text ELSE r.info_body

\* MatrixAdminAPI._request, lines 147-164, on a response that is returned
\* to the caller
AdminDecode(e, v, r) ==
    /\ procs.pc = "start"
    /\ procs' = [pc |-> "admin", r |-> r,
                 result |-> Result(r, [method |-> "GET", endpoint |-> e,
                                       data |-> NoData, api_version |-> v])]
    /\ UNCHANGED untouched

\* MatrixClientAPI._request, lines 76-93
ClientDecode(e, r) ==
    /\ procs.pc = "start"
    /\ procs' = [pc |-> "client", r |-> r, result |-> ClientResult(r, e)]
    /\ UNCHANGED untouched

DecodeInit ==
    /\ Untouched
    /\ procs = [pc |-> "start", r |-> NoResponse, result |-> NoResult]

DecodeNext ==
    \/ \E e \in Endpoints, v \in ApiVersions, r \in DecodeResponses : AdminDecode(e, v, r)
    \/ \E e \in {"account/whoami", "directory/room/%23ops%3Aexample.org"},
          r \in DecodeResponses : ClientDecode(e, r)

SpecDecode == DecodeInit /\ [][DecodeNext]_vars

\* ---------------------------------------------------- the device filter
\* synapse_device_info.py, filter_devices. Strings are sequences of
\* characters, None is the sequence None; a timestamp of None is NoTs and
\* an older_than_days of None is NoDays.
MaxDevices == 2

MaxDays == 2

NoTs == 0 - 1

NoDays == 0 - 1

\* line 179: the milliseconds of a day, 1000 * 60 * 60 * 24
DayMs == 1000 * 60 * 60 * 24

\* line 150: int(time.time() * 1000) at the call, ten days after the epoch
CurrentTimeMs == 10 * DayMs

\* str.lower(), character by character
Lower(str) ==
    [i \in 1..Len(str) |->
        CASE str[i] = "A" -> "a" [] str[i] = "B" -> "b" [] OTHER -> str[i]]

\* the `in` operator on strings: needle occurs in hay
Contains(needle, hay) ==
    \E i \in 0..(Len(hay) - Len(needle)) :
       SubSeq(hay, i + 1, i + Len(needle)) = needle

\* `value or ''` on a string or None
OrEmpty(value) == IF Truthy(value) THEN value ELSE <<>>

\* the two substring filters combined with "or": a device is skipped only
\* when it fails every supplied substring filter
Appends_EitherFilter(device, c) ==
    IF (Truthy(c.user_agent_filter) \/ Truthy(c.display_name_filter))
       /\ ~(\/ /\ Truthy(c.user_agent_filter)
               /\ Contains(Lower(c.user_agent_filter),
                           Lower(OrEmpty(device.last_seen_user_agent)))
            \/ /\ Truthy(c.display_name_filter)
               /\ Contains(Lower(c.display_name_filter),
                           Lower(OrEmpty(device.display_name))))
    THEN FALSE
    ELSE IF c.older_than_days /= NoDays
    THEN IF device.last_seen_ts = NoTs
         THEN c.older_than_days = 0
         ELSE IF c.current_time_ms - device.last_seen_ts < c.older_than_days * DayMs
              THEN FALSE
              ELSE c.older_than_days /= 0
    ELSE TRUE

\* the threshold test made with <= in place of <
Appends_ExactAgeSkipped(device, c) ==
    IF Truthy(c.user_agent_filter)
       /\ ~Contains(Lower(c.user_agent_filter), Lower(OrEmpty(device.last_seen_user_agent)))
    THEN FALSE
    ELSE IF Truthy(c.display_name_filter)
            /\ ~Contains(Lower(c.display_name_filter), Lower(OrEmpty(device.display_name)))
    THEN FALSE
    ELSE IF c.older_than_days /= NoDays
    THEN IF device.last_seen_ts = NoTs
         THEN c.older_than_days = 0
         ELSE IF c.current_time_ms - device.last_seen_ts <= c.older_than_days * DayMs
              THEN FALSE
              ELSE c.older_than_days /= 0
    ELSE TRUE

\* the loop body without the skip of timestamped devices at threshold 0
Appends_NoZeroSkip(device, c) ==
    IF Truthy(c.user_agent_filter)
       /\ ~Contains(Lower(c.user_agent_filter), Lower(OrEmpty(device.last_seen_user_agent)))
    THEN FALSE
    ELSE IF Truthy(c.display_name_filter)
            /\ ~Contains(Lower(c.display_name_filter), Lower(OrEmpty(device.display_name)))
    THEN FALSE
    ELSE IF c.older_than_days /= NoDays
    THEN IF device.last_seen_ts = NoTs
         THEN c.older_than_days = 0
         ELSE ~(c.current_time_ms - device.last_seen_ts < c.older_than_days * DayMs)
    ELSE TRUE

\* filter_devices, lines 152-189: whether one pass of the loop body appends
\* the device. age_days < older_than_days is age_ms / DayMs < N in floating
\* point, which for these magnitudes is age_ms < N * DayMs exactly.
Appends(device, c) ==
    IF Truthy(c.user_agent_filter)
       /\ ~Contains(Lower(c.user_agent_filter), Lower(OrEmpty(device.last_seen_user_agent)))
    THEN FALSE
    ELSE IF Truthy(c.display_name_filter)
            /\ ~Contains(Lower(c.display_name_filter), Lower(OrEmpty(device.display_name)))
    THEN FALSE
    ELSE IF c.older_than_days /= NoDays
    THEN IF device.last_seen_ts = NoTs
         THEN c.older_than_days = 0
         ELSE IF c.current_time_ms - device.last_seen_ts < c.older_than_days * DayMs
              THEN FALSE
              ELSE c.older_than_days /= 0
    ELSE TRUE

RECURSIVE filter_loop(_, _, _)

\* filter_devices, lines 152-189: the loop over the rest of the devices
filter_loop(devices, c, matched) ==
    IF devices = <<>> THEN matched
    ELSE filter_loop(Tail(devices), c,
                     IF Appends(Head(devices), c)
                     THEN Append(matched, Head(devices)) ELSE matched)

\* filter_devices, lines 147-191
filter_devices(devices, c) == filter_loop(devices, c, <<>>)

\* the devices the Admin API lists; their last_seen_ts values: never seen,
\* in the future, now, and on either side of each whole number of days
Devices ==
    [display_name : {None, <<"A", "b">>},
     last_seen_user_agent : {None, <<"b", "A">>},
     last_seen_ts : {NoTs, CurrentTimeMs + 1000, CurrentTimeMs}
                    \cup {CurrentTimeMs - k * DayMs : k \in 1..MaxDays}
                    \cup {CurrentTimeMs - k * DayMs + 1 : k \in 1..MaxDays}]

\* the module parameters of the filter and the clock reading
Criteria ==
    [user_agent_filter : {None, <<"B">>},
     display_name_filter : {None, <<>>, <<"a", "B">>},
     older_than_days : {NoDays} \cup 0..MaxDays,
     current_time_ms : {CurrentTimeMs}]

\* whether a device passes the two substring filters of criteria c
PassesSubstrings(device, c) ==
    /\ Truthy(c.user_agent_filter) =>
          Contains(Lower(c.user_agent_filter), Lower(OrEmpty(device.last_seen_user_agent)))
    /\ Truthy(c.display_name_filter) =>
          Contains(Lower(c.display_name_filter), Lower(OrEmpty(device.display_name)))

\* run_module, lines 242-247: the devices listed are filtered
RunFilter ==
    /\ procs.pc = "start"
    /\ procs' = [procs EXCEPT !.pc = "filtered",
                               !.matched = filter_devices(procs.devices, procs.criteria)]
    /\ UNCHANGED untouched

\* the devices listed and the module parameters, before the filter runs
FilterInit ==
    /\ Untouched
    /\ procs \in [pc : {"start"}, devices : UNION {[1..n -> Devices] : n \in 0..MaxDevices}, criteria : Criteria,
                   matched : {<<>>}]

FilterNext == RunFilter

SpecFilter == FilterInit /\ [][FilterNext]_vars

\* --------------------------------------------- identifiers in URL paths
\* Identifiers and paths are sequences of characters; the fixed text of a
\* path ("rooms/", "/members") is written as one element.
StartsWith(str, ch) == Len(str) > 0 /\ str[1] = ch

\* urllib.parse.quote(str, safe=''), character by character: letters,
\* digits and "_.-~" stay, every other character becomes its percent escape
Quote(str) ==
    [i \in 1..Len(str) |->
        CASE str[i] = "!" -> "%21"
          [] str[i] = "#" -> "%23"
          [] str[i] = ":" -> "%3A"
          [] str[i] = "@" -> "%40"
          [] str[i] = "/" -> "%2F"
          [] OTHER -> str[i]]

\* the characters of identifiers that the path grammar reserves
ReservedChars == {"@", ":", "#", "!"}

MaxIdLen == 2

\* matrix_api.py, get_room_info, line 221
get_room_info_endpoint(room_id) == <<"rooms/">> \o room_id

\* matrix_api.py, get_room_members, line 239
get_room_members_endpoint(room_id) == <<"rooms/">> \o room_id \o <<"/members">>

\* matrix_api.py, delete_room, line 254
delete_room_endpoint(room_id) == <<"rooms/">> \o room_id

\* synapse_device_info.py, list_user_devices, line 133
list_user_devices_endpoint(uid) == <<"users/">> \o uid \o <<"/devices">>

\* synapse_device_info.py, delete_device, line 143
delete_device_endpoint(uid, device_id) ==
    <<"users/">> \o uid \o <<"/devices/">> \o device_id

\* matrix_client.py, send_event, line 134
send_event_endpoint(room_id, event_type, transaction_id) ==
    <<"rooms/">> \o room_id \o <<"/send/", event_type, "/">> \o transaction_id

\* the endpoint operation op builds for identifier id: matrix_api.py, lines
\* 182-183, 205-206, 213-214, 268-269 and 275-276 for the user operations
EndpointOf(op, id) ==
    CASE op = "get_user_info" -> <<"users/">> \o Quote(id)
      [] op = "create_or_update_user" -> <<"users/">> \o Quote(id)
      [] op = "deactivate_user" -> <<"deactivate/">> \o Quote(id)
      [] op = "set_ratelimit_override" ->
           <<"users/">> \o Quote(id) \o <<"/override_ratelimit">>
      [] op = "delete_ratelimit_override" ->
           <<"users/">> \o Quote(id) \o <<"/override_ratelimit">>
      [] op = "get_room_info" -> get_room_info_endpoint(id)
      [] op = "get_room_members" -> get_room_members_endpoint(id)
      [] op = "delete_room" -> delete_room_endpoint(id)
      [] op = "list_user_devices" -> list_user_devices_endpoint(id)
      [] op = "delete_device" -> delete_device_endpoint(id, <<"D", "1">>)
      [] op = "send_event" -> send_event_endpoint(id, "m.room.message", <<"txn">>)

\* an operation builds its endpoint and hands it to the engine
BuildPath ==
    /\ procs.pc = "start"
    /\ procs' = [procs EXCEPT !.pc = "built",
                               !.endpoint = EndpointOf(procs.op, procs.id)]
    /\ UNCHANGED untouched

\* an operation is called with an identifier
\* the operation called and the user id or room id the caller passes, as
\* a character sequence
PathsInit ==
    /\ Untouched
    /\ procs \in [pc : {"start"},
                   op : {"get_user_info", "create_or_update_user", "deactivate_user",
                         "set_ratelimit_override", "delete_ratelimit_override",
                         "get_room_info", "get_room_members", "delete_room",
                         "list_user_devices", "delete_device", "send_event"},
                   id : UNION {[1..n -> ReservedChars \cup {"a"}] : n \in 1..MaxIdLen},
                   endpoint : {<<>>}]

PathsNext == BuildPath

SpecPaths == PathsInit /\ [][PathsNext]_vars

\* ------------------------------------------------------ room identifiers
\* The runs of the code that resolves room aliases: matrix_event.main,
\* post_verification_event, synapse_room.run_module and
\* synapse_room_info.run_module. procs holds the run: its parameters, its
\* local variables, the requests handed to fetch_url so far, and how it
\* ended.
CanonicalRoomId == <<"!", "r", ":", "x">>

\* the room identifiers passed as module parameters: a room id, an alias,
\* an alias without a server part, and a bare name
RoomIdentifiers ==
    {CanonicalRoomId, <<"#", "a", ":", "x">>, <<"#", "a">>, <<"a">>}

\* synapse_room_info.py, line 159: the homeserver domain cut from the URL
Homeserver == <<"x">>

\* fetch_url's (response, info) for a directory lookup: a readable response
\* on success; on an error a response object, readable or closed, or none
\* The body of a directory response is a JSON object with or without a
\* room_id field, or text that is not JSON
DirResponses ==
    LET DirBodies == {[fmt |-> "dict", room_id |-> CanonicalRoomId],
                      [fmt |-> "dict", room_id |-> None],
                      [fmt |-> "html", room_id |-> None]}
    IN [status : {200}, response : {"readable"}, body : DirBodies]
       \cup [status : {404, -1}, response : {"readable", "closed", "none"},
             body : DirBodies]

NoDir == [status |-> 0, response |-> "none", body |-> [fmt |-> "html", room_id |-> None]]

\* _request of either engine, then body.get('room_id'): the body is decoded
\* from a readable response or, without a response object, from info['body']
EngineRoomId(r) ==
    IF r.body.fmt = "dict" /\ r.response \in {"readable", "none"}
    THEN r.body.room_id ELSE None

\* every identifier but a room id is looked up
LooksUp_AnyNonId(ident) == ~StartsWith(ident, "!")

\* every identifier is looked up
LooksUp_Always(ident) == TRUE

\* resolve_room_identifier, lines 228-233: whether the directory is asked
LooksUp(ident) == ~StartsWith(ident, "!") /\ StartsWith(ident, "#")

\* the status of the directory response is not looked at
resolve_room_identifier_AnyStatus(ident, r) ==
    IF StartsWith(ident, "!") THEN ident
    ELSE IF StartsWith(ident, "#") THEN EngineRoomId(r)
    ELSE None

\* resolve_room_identifier, lines 228-240, with r the directory response
\* when the directory is asked
resolve_room_identifier(ident, r) ==
    IF StartsWith(ident, "!") THEN ident
    ELSE IF StartsWith(ident, "#")
         THEN IF r.status = 200 THEN EngineRoomId(r) ELSE None
    ELSE None

\* synapse_room.py, resolve_room_alias, lines 208-216
room_resolve_room_alias(r) ==
    IF r.status = 200 /\ r.response /= "none"
    THEN IF r.response = "readable" /\ r.body.fmt = "dict"
         THEN r.body.room_id ELSE None
    ELSE None

\* synapse_room_info.py, resolve_room_alias, lines 101-104
NormalizeAlias(room_alias, homeserver) ==
    IF ~StartsWith(room_alias, "#") THEN <<"#">> \o room_alias \o <<":">> \o homeserver
    ELSE IF \A i \in 1..Len(room_alias) : room_alias[i] /= ":"
         THEN room_alias \o <<":">> \o homeserver
    ELSE room_alias

\* synapse_room_info.py, resolve_room_alias, lines 112-114
info_resolve_room_alias(r) == IF r.status = 200 THEN EngineRoomId(r) ELSE None

\* a request handed to fetch_url: the API surface, who built it (the admin
\* engine, the client engine, or a module with the token parameter), the
\* method and the endpoint
Req(surface, via, method, endpoint) ==
    [surface |-> surface, via |-> via, method |-> method, endpoint |-> endpoint]

\* the directory lookup of an alias, lines 175-176 of matrix_client.py, 108-110
\* of synapse_room_info.py and 201-202 of synapse_room.py
DirectoryEndpoint(alias) == <<"directory/room/">> \o Quote(alias)

\* the results the admin engine hands back for a room call
AdminResults == [status_code : {200, 404, 500}, body : {"room", "empty"}]

\* module.exit_json / module.fail_json / return, with the keys passed
\* a request is handed to fetch_url: the log keeps it and, beside it, the
\* token it carries (the token parameter when a module built the request,
\* the session token when an engine did) with the session token of the moment
Sent(p, req, next) ==
    [p EXCEPT !.sent = Append(@, req),
              !.auth = Append(@, [carried |-> IF req.via = "module" THEN p.token
                                               ELSE p.session,
                                  session |-> p.session]),
              !.pc = next]

\* _request, lines 139-145, seen from the caller of an engine call: when
\* the call re-authenticated, h is the token login left in the session
Healed(p, h) == IF h = None THEN p ELSE [p EXCEPT !.session = h]

ExitJson(p, keys) == [p EXCEPT !.pc = "done", !.exit = [kind |-> "exit", keys |-> keys]]

FailJson(p, keys) == [p EXCEPT !.pc = "done", !.exit = [kind |-> "fail", keys |-> keys]]

\* ------------------------------------------------------- transaction ids
MaxClock == 2

HashSpace == 16

\* the readings of the millisecond clock and the draws of
\* random.randint(1000, 9999) of one call of the generator
Draws == [ts : 1..MaxClock, rnd : {1000, 9999}]

\* the random component is a fixed number
generate_transaction_id_FixedRandom(timestamp, random_component, room_id, event_type) ==
    <<"ansible-", ToString(timestamp), "-", "1000", "-",
      ToString((timestamp + 1000 + Len(room_id)
                + (IF event_type = "m.room.message" THEN 1 ELSE 2)) % HashSpace)>>

\* _generate_transaction_id, lines 194-212, with the clock reading and the
\* random draw as arguments. The first 8 hex digits of the md5 of unique_str
\* are a deterministic digest of the four parts with a finite range; a
\* checksum modulo HashSpace stands for it.
generate_transaction_id(timestamp, random_component, room_id, event_type) ==
    <<"ansible-", ToString(timestamp), "-", ToString(random_component), "-",
      ToString((timestamp + random_component + Len(room_id)
                + (IF event_type = "m.room.message" THEN 1 ELSE 2)) % HashSpace)>>

\* MatrixClientAPI.send_event, lines 130-135: the transaction id is
\* generated with draw g unless one was passed (the run's log of generator
\* calls keeps the call with its result), and the event is PUT; the
\* event type is that of matrix_event.py, line 210, or matrix_client.py,
\* line 257
PutEvent(p, room, g) ==
    LET event_type == IF p.module = "matrix_event" THEN "m.room.message"
                      ELSE "com.solti.verify.pass"
        gen == [ts |-> g.ts, rnd |-> g.rnd, room_id |-> room,
                event_type |-> event_type,
                id |-> generate_transaction_id(g.ts, g.rnd, room, event_type)]
        q == IF Truthy(p.transaction_id) THEN p
             ELSE [p EXCEPT !.generated = Append(@, gen)]
    IN Sent([q EXCEPT !.room_id = room],
            Req("client", "client", "PUT",
                send_event_endpoint(room, event_type,
                    IF Truthy(p.transaction_id) THEN p.transaction_id ELSE gen.id)),
            "send_put")

\* MatrixClientAPI.send_event, lines 122-135, up to its first request
SendEvent(p, room, g) ==
    IF StartsWith(room, "#")
    THEN Sent([p EXCEPT !.room_id = room],
              Req("client", "client", "GET", DirectoryEndpoint(room)),
              "send_resolving")
    ELSE PutEvent(p, room, g)

\* the caller of send_event takes its result: matrix_event.py, lines
\* 220-236, and post_verification_event, line 268
SendReturn(p, status, g) ==
    IF p.module = "matrix_event"
    THEN IF status = 200
         THEN LET gen == [ts |-> g.ts, rnd |-> g.rnd, room_id |-> p.resolved,
                          event_type |-> "m.room.message",
                          id |-> generate_transaction_id(g.ts, g.rnd, p.resolved,
                                                         "m.room.message")]
              IN ExitJson(IF Truthy(p.transaction_id)
                          THEN [p EXCEPT !.returned = p.transaction_id]
                          ELSE [p EXCEPT !.generated = Append(@, gen),
                                         !.returned = gen.id],
                          {"changed", "event_id", "room_id", "transaction_id",
                           "event_type", "schema", "msg"})
         ELSE FailJson(p, {"msg", "status_code", "body", "url"})
    ELSE [p EXCEPT !.pc = "done",
                   !.exit = [kind |-> "return",
                             keys |-> {"status_code", "body", "url"}]]

\* matrix_event.py, lines 202-218: the identifier resolved, the module
\* fails or sends the event
EventResolvedTo(p, resolved, g) ==
    IF ~Truthy(resolved)
    THEN FailJson([p EXCEPT !.resolved = resolved], {"msg", "room_id"})
    ELSE SendEvent([p EXCEPT !.resolved = resolved], resolved, g)

\* matrix_event.py, lines 175-180: state absent and check mode post nothing
EventSkipped ==
    /\ procs.module = "matrix_event"
    /\ procs.pc = "start"
    /\ procs.state = "absent" \/ procs.check_mode
    /\ procs' = ExitJson(procs, {"changed", "skipped", "msg"})
    /\ UNCHANGED untouched

\* matrix_event.py, lines 182-218, with resolve_room_identifier up to its
\* directory lookup or its return
EventResolve(g) ==
    /\ procs.module = "matrix_event"
    /\ procs.pc = "start"
    /\ procs.state /= "absent" /\ ~procs.check_mode
    /\ procs' = IF LooksUp(procs.ident)
                THEN Sent(procs, Req("client", "client", "GET",
                                     DirectoryEndpoint(procs.ident)),
                          "event_resolving")
                ELSE EventResolvedTo(procs, resolve_room_identifier(procs.ident, NoDir), g)
    /\ UNCHANGED untouched

\* resolve_room_identifier, lines 233-237, on the directory response, then
\* matrix_event.py, lines 203-218
EventResolved(r, g) ==
    /\ procs.pc = "event_resolving"
    /\ procs' = EventResolvedTo([procs EXCEPT !.dir = r],
                                resolve_room_identifier(procs.ident, r), g)
    /\ UNCHANGED untouched

\* post_verification_event, lines 243-268: send_event on the identifier
VerifyStart(g) ==
    /\ procs.module = "post_verification_event"
    /\ procs.pc = "start"
    /\ procs' = SendEvent(procs, procs.ident, g)
    /\ UNCHANGED untouched

\* send_event, lines 124-135, on the directory response
SendResolved(r, g) ==
    /\ procs.pc = "send_resolving"
    /\ procs' = IF r.status = 200
                THEN PutEvent([procs EXCEPT !.dir = r], EngineRoomId(r), g)
                ELSE SendReturn([procs EXCEPT !.dir = r], r.status, g)
    /\ UNCHANGED untouched

\* send_event, line 135, returns the result of the PUT; the clock read by a
\* second call of the generator is not behind the first reading
SendPut(status, g) ==
    /\ procs.pc = "send_put"
    /\ \A i \in 1..Len(procs.generated) : procs.generated[i].ts <= g.ts
    /\ procs' = SendReturn(procs, status, g)
    /\ UNCHANGED untouched

\* the admin lookup is made for every identifier
LooksUpRoomInfo_Always(room) == TRUE

\* synapse_room.py, line 338: whether the room is looked up on the admin API
LooksUpRoomInfo(room) == ~StartsWith(room, "#")

\* get_room_info, lines 221-226, and get_room_members, lines 239-244, on
\* the engine's result: the body, None, or an error dict
get_room_info(res) ==
    IF res.status_code = 200 THEN (IF res.body = "room" THEN "room" ELSE "empty")
    ELSE IF res.status_code = 404 THEN "none"
    ELSE "error"

RoomExitKeys == {"changed", "room", "access_token", "reauthenticated"}

\* synapse_room.py, lines 344-473, up to the next request or the exit; ok
\* is `current_room and 'error' not in current_room` of lines 345, 362, 408
RoomDispatch(p) ==
    LET ok == p.current_room \in {"room", "from_alias"}
    IN
    CASE p.state = "info" ->
           IF ok THEN ExitJson(p, RoomExitKeys)
           ELSE FailJson(p, {"msg"})
      [] p.state = "members" ->
           Sent(p, Req("admin", "engine", "GET", get_room_members_endpoint(p.room_id)),
                "room_members")
      [] p.state = "absent" ->
           IF ok /\ ~p.check_mode
           THEN Sent(p, Req("admin", "engine", "DELETE", delete_room_endpoint(p.room_id)),
                     "room_delete")
           ELSE ExitJson(p, RoomExitKeys)
      [] p.state = "join" ->
           IF p.check_mode THEN ExitJson(p, RoomExitKeys)
           ELSE Sent(p, Req("client", "engine", "POST",
                            <<"rooms/">> \o p.room_id \o <<"/join">>),
                     "room_join")
      [] p.state = "present" ->
           IF ok \/ p.check_mode THEN ExitJson(p, RoomExitKeys)
           ELSE Sent(p, Req("client", "module", "GET", <<"account/whoami">>),
                     "room_whoami")

\* synapse_room.py, lines 337-339
RoomLookup(p) ==
    IF LooksUpRoomInfo(p.room_id)
    THEN Sent(p, Req("admin", "engine", "GET", get_room_info_endpoint(p.room_id)),
              "room_info")
    ELSE RoomDispatch([p EXCEPT !.current_room = "none"])

\* synapse_room.py, lines 315-339
RoomStart ==
    /\ procs.module = "synapse_room"
    /\ procs.pc = "start"
    /\ procs' = IF StartsWith(procs.ident, "#")
                THEN Sent([procs EXCEPT !.room_id = procs.ident],
                          Req("client", "module", "GET", DirectoryEndpoint(procs.ident)),
                          "room_resolving")
                ELSE RoomLookup([procs EXCEPT !.room_id = procs.ident])
    /\ UNCHANGED untouched

\* synapse_room.py, resolve_room_alias, lines 208-216, then lines 328-339
RoomResolved(r) ==
    /\ procs.pc = "room_resolving"
    /\ LET resolved == room_resolve_room_alias(r)
           p == [procs EXCEPT !.dir = r, !.resolved = resolved]
       IN procs' = IF Truthy(resolved)
                   THEN RoomLookup([p EXCEPT !.room_id = resolved,
                                             !.alias_resolved = TRUE])
                   ELSE IF p.state \notin {"present", "absent", "join"}
                        THEN FailJson(p, {"msg"})
                        ELSE RoomLookup(p)
    /\ UNCHANGED untouched

\* synapse_room.py, lines 339-342, then the dispatch on state
RoomInfoReturned(res, h) ==
    /\ procs.pc = "room_info"
    /\ h /= None => TruthyStr(procs.admin_user)
    /\ LET found == get_room_info(res)
       IN procs' = RoomDispatch(
                      [Healed(procs, h) EXCEPT
                          !.lookups = Append(@, [op |-> "get_room_info",
                                                 status_code |-> res.status_code,
                                                 value |-> found]),
                          !.current_room =
                             IF found \in {"none", "error"} /\ procs.alias_resolved
                             THEN "from_alias" ELSE found])
    /\ UNCHANGED untouched

\* synapse_room.py, lines 353-359
RoomMembersReturned(res, h) ==
    /\ procs.pc = "room_members"
    /\ h /= None => TruthyStr(procs.admin_user)
    /\ LET p == [Healed(procs, h) EXCEPT
                    !.lookups = Append(@, [op |-> "get_room_members",
                                           status_code |-> res.status_code,
                                           value |-> get_room_info(res)])]
       IN procs' = IF get_room_info(res) = "room"
                   THEN ExitJson(p, RoomExitKeys \cup {"members"})
                   ELSE FailJson(p, {"msg"})
    /\ UNCHANGED untouched

\* synapse_room.py, lines 377-383
RoomDeleteReturned(res, h) ==
    /\ procs.pc = "room_delete"
    /\ h /= None => TruthyStr(procs.admin_user)
    /\ procs' = IF res.status_code = 200
                THEN ExitJson(Healed(procs, h), RoomExitKeys \cup {"delete_id"})
                ELSE FailJson(Healed(procs, h), {"msg"})
    /\ UNCHANGED untouched

\* synapse_room.py, lines 399-405
RoomJoinReturned(res, h) ==
    /\ procs.pc = "room_join"
    /\ h /= None => TruthyStr(procs.admin_user)
    /\ procs' = IF res.status_code = 200
                THEN ExitJson(Healed(procs, h), RoomExitKeys)
                ELSE FailJson(Healed(procs, h), {"msg"})
    /\ UNCHANGED untouched

\* synapse_room.py, get_whoami returns, lines 428-473: the room is created
RoomWhoamiReturned ==
    /\ procs.pc = "room_whoami"
    /\ procs' = Sent(procs, Req("client", "module", "POST", <<"createRoom">>),
                     "room_create")
    /\ UNCHANGED untouched

\* synapse_room.py, lines 475-485
RoomCreateReturned(status) ==
    /\ procs.pc = "room_create"
    /\ procs' = IF status = 200
                THEN ExitJson(procs, RoomExitKeys \cup {"power_levels_applied"})
                ELSE FailJson(procs, {"msg", "status_code", "response", "url"})
    /\ UNCHANGED untouched

\* synapse_room_info.py, lines 162-196, with resolve_room_alias up to its
\* directory lookup
InfoStart ==
    /\ procs.module = "synapse_room_info"
    /\ procs.pc = "start"
    /\ procs' =
          CASE procs.by = "room_id" ->
                 Sent([procs EXCEPT !.room_id = procs.ident],
                      Req("admin", "engine", "GET", <<"rooms/">> \o procs.ident),
                      "info_details")
            [] procs.by = "room_alias" ->
                 Sent(procs, Req("client", "engine", "GET",
                                 DirectoryEndpoint(NormalizeAlias(procs.ident, Homeserver))),
                      "info_resolving")
            [] OTHER ->
                 Sent(procs, Req("admin", "engine", "GET", <<"rooms?limit=100">>),
                      "info_list")
    /\ UNCHANGED untouched

\* synapse_room_info.py, lines 112-114 and 172-181
InfoResolved(r) ==
    /\ procs.pc = "info_resolving"
    /\ LET resolved == info_resolve_room_alias(r)
           p == [procs EXCEPT !.dir = r, !.resolved = resolved]
       IN procs' = IF Truthy(resolved)
                   THEN Sent([p EXCEPT !.room_id = resolved],
                             Req("admin", "engine", "GET", <<"rooms/">> \o resolved),
                             "info_details")
                   ELSE FailJson(p, {"msg"})
    /\ UNCHANGED untouched

\* synapse_room_info.py, get_room_details, lines 117-123, on the engine's
\* result: the body or None
get_room_details(res) == IF res.status_code = 200 THEN res.body ELSE "none"

\* get_room_details returns, then lines 164-168 and 175-179
InfoDetailsReturned(res) ==
    /\ procs.pc = "info_details"
    /\ LET p == [procs EXCEPT
                    !.lookups = Append(@, [op |-> "get_room_details",
                                           status_code |-> res.status_code,
                                           value |-> get_room_details(res)])]
       IN procs' = IF get_room_details(res) = "room"
                   THEN ExitJson(p, {"changed", "rooms", "total"})
                   ELSE FailJson(p, {"msg"})
    /\ UNCHANGED untouched

\* synapse_room_info.py, lines 198-205
InfoListReturned(res) ==
    /\ procs.pc = "info_list"
    /\ procs' = IF res.status_code /= 200
                THEN FailJson(procs, {"msg"})
                ELSE ExitJson(procs, {"changed", "rooms", "total"})
    /\ UNCHANGED untouched

\* -------------------------------------------------------- the user modules
\* matrix_api.py, get_user_info, lines 180-189, on the engine's result: the
\* body, None, or an error dict
get_user_info(res) ==
    IF res.status_code = 200 THEN res.body
    ELSE IF res.status_code = 404 THEN "none"
    ELSE "error"

\* the rate limit override is set in check mode too
UserProceed_RatelimitInCheckMode(p, stage) ==
    IF stage = "ratelimit" /\ p.ratelimit
    THEN Sent(p, Req("admin", "engine", "POST",
                     <<"users/">> \o Quote(p.ident) \o <<"/override_ratelimit">>),
              "user_ratelimit")
    ELSE IF ~p.check_mode
    THEN Sent(p, Req("admin", "engine", "GET", <<"users/">> \o Quote(p.ident)),
              "user_final")
    ELSE ExitJson(p, {"changed", "user"})

\* synapse_user.py, lines 224-244, from the rate limit override on (stage
\* "ratelimit") or from the fetch of the final state on (stage "final"), up
\* to the next request or the exit
UserProceed(p, stage) ==
    IF stage = "ratelimit" /\ p.ratelimit /\ ~p.check_mode
    THEN Sent(p, Req("admin", "engine", "POST",
                     <<"users/">> \o Quote(p.ident) \o <<"/override_ratelimit">>),
              "user_ratelimit")
    ELSE IF ~p.check_mode
    THEN Sent(p, Req("admin", "engine", "GET", <<"users/">> \o Quote(p.ident)),
              "user_final")
    ELSE ExitJson(p, {"changed", "user"})

\* synapse_user.py, lines 166-177, with get_user_info up to its request
UserStart ==
    /\ procs.module = "synapse_user"
    /\ procs.pc = "start"
    /\ procs' = Sent(procs, Req("admin", "engine", "GET",
                                <<"users/">> \o Quote(procs.ident)),
                     "user_info")
    /\ UNCHANGED untouched

\* get_user_info returns, then synapse_user.py, lines 179-222; the user the
\* server describes is deactivated or not, and the displayname and admin
\* parameters agree with it
UserInfoReturned(res, deactivated) ==
    /\ procs.pc = "user_info"
    /\ LET current_user == get_user_info(res)
           is_deactivated == current_user = "room" /\ deactivated
           p == [procs EXCEPT
                    !.current_user = current_user,
                    !.lookups = Append(@, [op |-> "get_user_info",
                                           status_code |-> res.status_code,
                                           value |-> current_user])]
       IN procs' =
             IF current_user = "error" THEN FailJson(p, {"msg"})
             ELSE IF p.state = "absent"
             THEN IF current_user = "room" /\ ~is_deactivated
                  THEN IF p.check_mode
                       THEN UserProceed([p EXCEPT !.changed = TRUE], "final")
                       ELSE Sent(p, Req("admin", "engine", "POST",
                                        <<"deactivate/">> \o Quote(p.ident)),
                                 "user_deactivate")
                  ELSE UserProceed(p, "final")
             ELSE IF current_user = "none" \/ is_deactivated /= p.deactivated
                  THEN IF p.check_mode
                       THEN UserProceed([p EXCEPT !.changed = TRUE], "ratelimit")
                       ELSE Sent(p, Req("admin", "engine", "PUT",
                                        <<"users/">> \o Quote(p.ident)),
                                 "user_put")
                  ELSE UserProceed(p, "ratelimit")
    /\ UNCHANGED untouched

\* deactivate_user returns: synapse_user.py, lines 187-190
UserDeactivateReturned(res) ==
    /\ procs.pc = "user_deactivate"
    /\ procs' = IF res.status_code = 200
                THEN UserProceed([procs EXCEPT !.changed = TRUE], "final")
                ELSE FailJson(procs, {"msg"})
    /\ UNCHANGED untouched

\* create_or_update_user returns: synapse_user.py, lines 218-222
UserPutReturned(status) ==
    /\ procs.pc = "user_put"
    /\ procs' = IF status \in {200, 201}
                THEN UserProceed([procs EXCEPT !.changed = TRUE], "ratelimit")
                ELSE FailJson(procs, {"msg"})
    /\ UNCHANGED untouched

\* set_ratelimit_override returns: synapse_user.py, lines 234-236
UserRatelimitReturned(res) ==
    /\ procs.pc = "user_ratelimit"
    /\ procs' = UserProceed([procs EXCEPT !.warned = res.status_code /= 200], "final")
    /\ UNCHANGED untouched

\* the final get_user_info returns: synapse_user.py, lines 240-244. With
\* final_user None, `'error' not in final_user` raises TypeError, which
\* nothing catches
UserFinalReturned(res) ==
    /\ procs.pc = "user_final"
    /\ LET final_user == get_user_info(res)
           p == [procs EXCEPT
                    !.lookups = Append(@, [op |-> "get_user_info",
                                           status_code |-> res.status_code,
                                           value |-> final_user])]
       IN procs' = IF final_user = "none"
                   THEN [p EXCEPT !.pc = "done",
                                  !.exit = [kind |-> "exception", keys |-> {}]]
                   ELSE ExitJson(p, {"changed", "user"})
    /\ UNCHANGED untouched

\* synapse_user_info.py, lines 137-169, up to the request
UinfoStart ==
    /\ procs.module = "synapse_user_info"
    /\ procs.pc = "start"
    /\ procs' = IF Truthy(procs.ident)
                THEN Sent(procs, Req("admin", "engine", "GET",
                                     <<"users/">> \o Quote(procs.ident)),
                          "uinfo_lookup")
                ELSE Sent(procs, Req("admin", "engine", "GET",
                                     <<"users?limit=100&deactivated=false">>),
                          "uinfo_list")
    /\ UNCHANGED untouched

\* get_user_info returns: synapse_user_info.py, lines 144-153 and 188. With
\* user None, `'error' not in user` raises TypeError before the else branch
UinfoReturned(res) ==
    /\ procs.pc = "uinfo_lookup"
    /\ LET user == get_user_info(res)
           p == [procs EXCEPT
                    !.lookups = Append(@, [op |-> "get_user_info",
                                           status_code |-> res.status_code,
                                           value |-> user])]
       IN procs' = IF user = "none"
                   THEN [p EXCEPT !.pc = "done",
                                  !.exit = [kind |-> "exception", keys |-> {}]]
                   ELSE IF user = "error" THEN FailJson(p, {"msg"})
                   ELSE ExitJson(p, {"changed", "users", "total"})
    /\ UNCHANGED untouched

\* synapse_user_info.py, lines 171-188
UinfoListed(res) ==
    /\ procs.pc = "uinfo_list"
    /\ procs' = IF res.status_code /= 200
                THEN FailJson(procs, {"msg"})
                ELSE ExitJson(procs, {"changed", "users", "total"})
    /\ UNCHANGED untouched

\* ------------------------------------------------------ the device module
\* synapse_device_info.py, list_user_devices, lines 131-138, on the engine's
\* result, with the devices a body lists: the devices of the body, an empty
\* list, or None
list_user_devices(res, listed) ==
    IF res.status_code = 200
    THEN [none |-> FALSE, devices |-> IF res.body = "room" THEN listed ELSE <<>>]
    ELSE IF res.status_code = 404 THEN [none |-> FALSE, devices |-> <<>>]
    ELSE [none |-> TRUE, devices |-> <<>>]

\* the loop stops at the first device that could not be revoked
Revoke_StopsAtFailure(p) ==
    IF p.failed = <<>> /\ Len(p.revoked) + Len(p.failed) < Len(p.matched)
    THEN Sent(p, Req("admin", "engine", "DELETE",
                     delete_device_endpoint(p.ident,
                         p.matched[Len(p.revoked) + Len(p.failed) + 1].device_id)),
              "device_delete")
    ELSE ExitJson([p EXCEPT !.changed = Len(p.revoked) > 0,
                            !.warned = p.failed /= <<>>],
                  {"changed", "devices", "matched_devices", "total_devices",
                   "matched_count", "revoked_devices", "access_token",
                   "reauthenticated"})

\* synapse_device_info.py, lines 260-278: the loop over the matched devices
\* up to the next delete_device, or past its end to the exit
Revoke(p) ==
    IF Len(p.revoked) + Len(p.failed) < Len(p.matched)
    THEN Sent(p, Req("admin", "engine", "DELETE",
                     delete_device_endpoint(p.ident,
                         p.matched[Len(p.revoked) + Len(p.failed) + 1].device_id)),
              "device_delete")
    ELSE ExitJson([p EXCEPT !.changed = Len(p.revoked) > 0,
                            !.warned = p.failed /= <<>>],
                  {"changed", "devices", "matched_devices", "total_devices",
                   "matched_count", "revoked_devices", "access_token",
                   "reauthenticated"})

\* synapse_device_info.py, lines 222-236, with list_user_devices up to its
\* request
DeviceStart ==
    /\ procs.module = "synapse_device_info"
    /\ procs.pc = "start"
    /\ procs' = Sent(procs, Req("admin", "engine", "GET",
                                list_user_devices_endpoint(procs.ident)),
                     "device_list")
    /\ UNCHANGED untouched

\* list_user_devices returns, then synapse_device_info.py, lines 238-260
DevicesListed(res) ==
    /\ procs.pc = "device_list"
    /\ LET devices == list_user_devices(res, procs.listed)
           matched == filter_devices(devices.devices, procs.criteria)
           p == [procs EXCEPT
                    !.devices = devices.devices,
                    !.matched = matched,
                    !.lookups = Append(@, [op |-> "list_user_devices",
                                           status_code |-> res.status_code,
                                           value |-> IF devices.none THEN "none"
                                                     ELSE IF devices.devices = <<>>
                                                     THEN "empty list"
                                                     ELSE "list"])]
       IN procs' =
             IF devices.none THEN FailJson(p, {"msg"})
             ELSE IF p.revoke_matched /\ matched /= <<>>
             THEN IF p.check_mode
                  THEN ExitJson([p EXCEPT !.changed = TRUE,
                                          !.revoked = [i \in 1..Len(matched) |->
                                                          matched[i].device_id]],
                                {"changed", "devices", "matched_devices",
                                 "total_devices", "matched_count",
                                 "revoked_devices", "access_token",
                                 "reauthenticated"})
                  ELSE Revoke(p)
             ELSE ExitJson(p, {"changed", "devices", "matched_devices",
                               "total_devices", "matched_count", "access_token",
                               "reauthenticated"})
    /\ UNCHANGED untouched

\* delete_device returns, lines 141-144: synapse_device_info.py, lines
\* 262-266, and the loop goes on
DeviceDeleteReturned(res) ==
    /\ procs.pc = "device_delete"
    /\ LET device_id == procs.matched[Len(procs.revoked) + Len(procs.failed) + 1].device_id
       IN procs' = Revoke(IF res.status_code = 200
                          THEN [procs EXCEPT !.revoked = Append(@, device_id)]
                          ELSE [procs EXCEPT !.failed = Append(@, device_id)])
    /\ UNCHANGED untouched

\* a run as its module is invoked; listed holds the devices the server
\* has for the user, up to MaxDevices of them with distinct ids
NewRun(module, ident, by, state, check_mode) ==
    [module |-> module, pc |-> "start", ident |-> ident, by |-> by,
     state |-> state, check_mode |-> check_mode, room_id |-> None,
     resolved |-> None, alias_resolved |-> FALSE, current_room |-> "none",
     dir |-> NoDir, sent |-> <<>>, exit |-> [kind |-> "none", keys |-> {}],
     transaction_id |-> None, generated |-> <<>>, returned |-> None,
     token |-> <<"a">>, admin_user |-> NoValue, session |-> <<"a">>, auth |-> <<>>,
     lookups |-> <<>>, current_user |-> "none", deactivated |-> FALSE,
     ratelimit |-> FALSE, changed |-> FALSE, warned |-> FALSE,
     revoke_matched |-> FALSE,
     criteria |-> [user_agent_filter |-> None, display_name_filter |-> None,
                   older_than_days |-> NoDays, current_time_ms |-> CurrentTimeMs],
     listed |-> <<>>, devices |-> <<>>, matched |-> <<>>, revoked |-> <<>>,
     failed |-> <<>>]

RoomsInit ==
    /\ Untouched
    /\ procs \in
          {[NewRun("matrix_event", i, "room_id", st, cm) EXCEPT !.transaction_id = t] :
              i \in RoomIdentifiers, st \in {"present", "absent"}, cm \in BOOLEAN,
              t \in {None, <<"t">>}}
          \cup {NewRun("post_verification_event", i, "room_id", "present", FALSE) :
                   i \in RoomIdentifiers}
          \cup {[NewRun("synapse_room", i, "room_id", st, cm)
                    EXCEPT !.token = tok, !.admin_user = u,
                           !.session = IF UsesCache(tok, u)
                                       THEN LoadCachedToken(f, tok, "ok") ELSE tok] :
                   i \in RoomIdentifiers,
                   st \in {"present", "absent", "info", "members", "join"},
                   cm \in BOOLEAN, tok \in {Placeholder, <<"a">>},
                   u \in SuppliedUsers,
                   f \in {NoFile, [exists |-> TRUE, content |-> <<"b">>,
                                   mode |-> OwnerOnly]}}
          \cup {NewRun("synapse_room_info", i, by, "info", cm) :
                   i \in RoomIdentifiers, by \in {"room_id", "room_alias"},
                   cm \in BOOLEAN}
          \cup {NewRun("synapse_room_info", None, "none", "info", FALSE)}
          \cup {[NewRun("synapse_user", <<"@", "u">>, "user_id", st, cm)
                    EXCEPT !.deactivated = d, !.ratelimit = rl] :
                   st \in {"present", "absent"}, cm \in BOOLEAN,
                   d \in BOOLEAN, rl \in BOOLEAN}
          \cup {NewRun("synapse_user_info", i, "user_id", "info", cm) :
                   i \in {None, <<"@", "u">>}, cm \in BOOLEAN}
          \cup {[NewRun("synapse_device_info", <<"@", "u">>, "user_id", "info", cm)
                    EXCEPT !.revoke_matched = rv, !.criteria.older_than_days = days,
                           !.listed = l] :
                   cm \in BOOLEAN, rv \in BOOLEAN, days \in {NoDays, 0},
                   l \in {l \in UNION {[1..n -> [device_id : {<<"D", "1">>, <<"D", "2">>,
                                                              <<"D", "3">>},
                                                 display_name : {None},
                                                 last_seen_user_agent : {None},
                                                 last_seen_ts : {NoTs,
                                                                 CurrentTimeMs - DayMs}]] :
                                       n \in 0..MaxDevices} :
                             \A i, j \in 1..Len(l) :
                                l[i].device_id = l[j].device_id => i = j}}

RoomsNext ==
    \/ EventSkipped
    \/ \E g \in Draws : EventResolve(g)
    \/ \E r \in DirResponses, g \in Draws : EventResolved(r, g)
    \/ \E g \in Draws : VerifyStart(g)
    \/ \E r \in DirResponses, g \in Draws : SendResolved(r, g)
    \/ \E status \in {200, 403}, g \in Draws : SendPut(status, g)
    \/ RoomStart
    \/ \E r \in DirResponses : RoomResolved(r)
    \/ \E res \in AdminResults, h \in {None, <<"b", "b">>} : RoomInfoReturned(res, h)
    \/ \E res \in AdminResults, h \in {None, <<"b", "b">>} : RoomMembersReturned(res, h)
    \/ \E res \in AdminResults, h \in {None, <<"b", "b">>} : RoomDeleteReturned(res, h)
    \/ \E res \in AdminResults, h \in {None, <<"b", "b">>} : RoomJoinReturned(res, h)
    \/ RoomWhoamiReturned
    \/ \E status \in {200, 400} : RoomCreateReturned(status)
    \/ InfoStart
    \/ \E r \in DirResponses : InfoResolved(r)
    \/ \E res \in AdminResults : InfoDetailsReturned(res)
    \/ \E res \in AdminResults : InfoListReturned(res)
    \/ UserStart
    \/ \E res \in AdminResults, deactivated \in BOOLEAN : UserInfoReturned(res, deactivated)
    \/ \E res \in AdminResults : UserDeactivateReturned(res)
    \/ \E status \in {200, 201, 400} : UserPutReturned(status)
    \/ \E res \in AdminResults : UserRatelimitReturned(res)
    \/ \E res \in AdminResults : UserFinalReturned(res)
    \/ UinfoStart
    \/ \E res \in AdminResults : UinfoReturned(res)
    \/ \E res \in AdminResults : UinfoListed(res)
    \/ DeviceStart
    \/ \E res \in AdminResults : DevicesListed(res)
    \/ \E res \in AdminResults : DeviceDeleteReturned(res)

SpecRooms == RoomsInit /\ [][RoomsNext]_vars

\* ------------------------------------------------------------- properties
HasCredentials == TruthyStr(user_id) /\ TruthyStr(password)

\* C1: in one logical call the engine sends at most one login exchange and
\* at most two requests (the original and one replay), and the replay runs
\* with retry_auth disabled, whatever the server answers.
C1_AtMostOneLoginAndReplay ==
    /\ Cardinality({i \in DOMAIN wire : wire[i].kind = "login"}) <= 1
    /\ Cardinality({i \in DOMAIN wire : wire[i].kind = "request"}) <= 2
    /\ (Len(wire) >= 2 => wire[1].kind = "request" /\ wire[2].kind = "login")
    /\ (Len(wire) >= 3 => ~retry_auth)
    /\ (pc = "login" => Len(wire) = 2)

\* a call whose replay was answered 401 or 403 as well and returned
C1_Witness ==
    pc = "done" /\ Len(wire) = 3 /\ result.status_code \in {401, 403}

\* C2: with user id and password, when the first attempt is answered 401 or
\* 403 and login succeeds, the same method, URL and body are re-issued with
\* the token of the login response, the session is marked re-authenticated,
\* and the caller gets the result of the replay (status 200 if it is 200).
C2_ReplayCarriesNewToken ==
    [][ /\ pc = "login" =>
           \A l \in LoginResponses :
             ( /\ l.status = 200 /\ l.response = "readable"
               /\ l.body.fmt = "dict"
               /\ \/ LoginFailed(l)
                  \/ \E cm \in CreateModes, io \in SaveOutcomes :
                        LoginSucceeded(l, cm, io) )
             => /\ HasCredentials
                /\ resp.status \in {401, 403}
                /\ access_token' = l.body.access_token
                /\ wire' = Append(wire, [wire[1] EXCEPT
                                           !.authorization = l.body.access_token])
                /\ wire[1] = Request(call, access_token)
                /\ reauthenticated'
                /\ pc' = "request"
                /\ ~retry_auth'
                /\ call' = call
        /\ (pc = "request" /\ ~retry_auth) =>
           \A r \in Responses :
             Respond(r)
             => /\ pc' = "done"
                /\ wire' = wire
                /\ result' = [status_code |-> r.status, body |-> DecodeBody(r),
                              url |-> wire[3].url]
      ]_vars

\* a call that was answered 401 or 403, logged in to a different token and
\* succeeded on the replay
C2_Witness ==
    /\ pc = "done" /\ Len(wire) = 3 /\ reauthenticated
    /\ result.status_code = 200
    /\ wire[3].authorization /= wire[1].authorization
    /\ wire[3].authorization = access_token

\* C3: when the first attempt is answered 401 or 403 and the login exchange
\* fails (status other than 200, no response, or a body that is no JSON), the
\* caller gets the status and decoded body of the first response, nothing is
\* re-issued, and token, flag and cache file stay as they were.
C3_FailedLoginReturnsOriginal ==
    [][ pc = "login" =>
        \A l \in LoginResponses :
          ( /\ (l.status /= 200 \/ l.response = "none" \/ l.body.fmt = "html")
            /\ \/ LoginFailed(l)
               \/ \E cm \in CreateModes, io \in SaveOutcomes :
                     LoginSucceeded(l, cm, io) )
          => /\ resp.status \in {401, 403}
             /\ result' = [status_code |-> resp.status,
                           body |-> DecodeBody(resp), url |-> wire[1].url]
             /\ pc' = "done"
             /\ wire' = wire
             /\ access_token' = access_token
             /\ reauthenticated' = reauthenticated
             /\ fs' = fs
      ]_vars

\* a call that returned 403 with the error body after a login that failed
C3_Witness ==
    /\ pc = "done" /\ Len(wire) = 2 /\ wire[2].kind = "login"
    /\ result.status_code = 403
    /\ result.body = Dict({<<"errcode", "M_UNKNOWN_TOKEN">>})
    /\ ~reauthenticated

\* C4: a session without user id or without password sends no login: a 401
\* or 403 goes to the caller as it is after one send, and token, flag and
\* cache file stay as they were.
C4_BareTokenNeverLogsIn ==
    [][ /\ (~HasCredentials => pc' /= "login")
        /\ (pc = "request" /\ ~HasCredentials) =>
           \A r \in Responses :
             (r.status \in {401, 403} /\ Respond(r))
             => /\ result' = [status_code |-> r.status, body |-> DecodeBody(r),
                              url |-> wire[1].url]
                /\ pc' = "done"
                /\ wire' = wire
                /\ Len(wire) = 1
                /\ UNCHANGED <<session, fs>>
      ]_vars

\* a session with a user id but no password whose call returned 401
C4_Witness ==
    /\ pc = "done" /\ TruthyStr(user_id) /\ ~TruthyStr(password)
    /\ result.status_code = 401 /\ Len(wire) = 1 /\ ~reauthenticated

\* C5: a transport failure (status -1) and every status other than 401 and
\* 403 are not retried: the response goes to the caller, nothing more is
\* sent (one send when it answers the first attempt), no login is issued,
\* and token, flag and cache file stay as they were.
C5_OtherFailuresNotRetried ==
    [][ pc = "request" =>
        \A r \in Responses :
          (r.status \notin {401, 403} /\ Respond(r))
          => /\ result' = [status_code |-> r.status, body |-> DecodeBody(r),
                           url |-> wire[1].url]
             /\ pc' = "done"
             /\ wire' = wire
             /\ (retry_auth => Len(wire) = 1)
             /\ UNCHANGED <<session, fs>>
      ]_vars

\* a session with user id and password whose call met a transport failure
C5_Witness ==
    /\ pc = "done" /\ HasCredentials /\ result.status_code = -1
    /\ Len(wire) = 1 /\ ~reauthenticated

\* C6: every load that runs next to saves of other processes returns nothing
\* or a token that one of the saves wrote in full.
C6_LoadSeesWholeToken ==
    \A r \in Readers :
       (procs[r].pc = "done" /\ procs[r].loaded /= None)
       => \E w \in Writers \cup {"prev"} : procs[w].token = procs[r].loaded

\* C7: once all concurrent writers for one identity have finished, the cache
\* file holds exactly the token of one of them.
C7_LastWriterWins ==
    ( /\ \A w \in Writers : procs[w].pc = "done"
      /\ \E w \in Writers : Truthy(procs[w].token) )
    => \E w \in Writers :
          Truthy(procs[w].token) /\ fs[CachePath].content = procs[w].token

C9_CacheFileOwnerOnly ==
    \A path \in CachePaths : fs[path].exists => fs[path].mode = OwnerOnly

\* C10: after a login that the engine treats as successful, while the replay
\* is under way, the cache file of the session's identity holds exactly the
\* token the replay carries.
C10_CacheHoldsReplayToken ==
    (pc = "request" /\ ~retry_auth)
    => /\ fs[cache_path_of(user_id)].exists
       /\ fs[cache_path_of(user_id)].content = wire[Len(wire)].authorization

\* C11: a session constructed with an empty or placeholder token, an
\* identity and a readable cache file holding a non-empty token takes the
\* cached token; a session constructed with a real token, or without an
\* identity, keeps the supplied token; and the first request of a session
\* carries the session token unchanged.
C11_CachedTokenUsedFirst ==
    [][ /\ (pc \in {"start", "idle"} /\ pc' = "idle") =>
              \A tok \in SuppliedTokens, u \in SuppliedUsers, p \in {NoValue} \cup Passwords,
                 io \in LoadOutcomes :
                 Construct(tok, u, p, io) =>
                    /\ ( /\ ~Truthy(tok) \/ tok = Placeholder
                         /\ TruthyStr(u)
                         /\ io = "ok"
                         /\ fs[cache_path_of(u)].exists
                         /\ Truthy(fs[cache_path_of(u)].content) )
                       => access_token' = fs[cache_path_of(u)].content
                    /\ ( (Truthy(tok) /\ tok /= Placeholder) \/ ~TruthyStr(u) )
                       => access_token' = tok
        /\ (pc = "idle" /\ pc' = "request") =>
              /\ Len(wire') = 1
              /\ wire'[1].authorization = access_token
              /\ access_token' = access_token ]_vars

\* the first request of a session carries a token that only the cache held
C11_Witness ==
    /\ pc = "request"
    /\ Len(wire) = 1
    /\ ~reauthenticated
    /\ TruthyStr(user_id)
    /\ fs[cache_path_of(user_id)].exists
    /\ fs[cache_path_of(user_id)].content = <<"b", "b">>
    /\ wire[1].authorization = <<"b", "b">>
    /\ access_token = <<"b", "b">>

\* C12: a cache read that raises during construction leaves the session
\* with the supplied token and construction completes; a cache write that
\* raises after a successful login leaves the login successful: the session
\* takes the new token and the replay is issued with it.
C12_CacheFailuresNonFatal ==
    [][ /\ (pc \in {"start", "idle"} /\ pc' = "idle") =>
              \A tok \in SuppliedTokens, u \in SuppliedUsers, p \in {NoValue} \cup Passwords :
                 Construct(tok, u, p, "read_raises") =>
                    access_token' = tok /\ pc' = "idle"
        /\ (pc = "login" /\ resp.status \in {401, 403}) =>
              \A l \in LoginResponses :
                 (l.status = 200 /\ l.response = "readable" /\ l.body.fmt = "dict"
                    /\ Truthy(l.body.access_token) /\ l.body.access_token /= None) =>
                    \A cm \in CreateModes, io \in {"open_raises", "write_raises"} :
                       /\ ENABLED LoginSucceeded(l, cm, io)
                       /\ LoginSucceeded(l, cm, io) =>
                             /\ reauthenticated'
                             /\ access_token' = l.body.access_token
                             /\ pc' = "request"
                             /\ Len(wire') = Len(wire) + 1
                             /\ wire'[Len(wire')].authorization = l.body.access_token ]_vars

\* a replay is in flight with the new token although the write of the cache
\* file failed after truncating it
C12_Witness ==
    /\ pc = "request"
    /\ reauthenticated
    /\ ~retry_auth
    /\ Len(wire) = 3
    /\ Truthy(access_token)
    /\ wire[3].authorization = access_token
    /\ TruthyStr(user_id)
    /\ fs[cache_path_of(user_id)].exists
    /\ fs[cache_path_of(user_id)].content = <<>>

\* C13 as stated: in both engines a body that is not valid JSON decodes to
\* the raw-text structure carrying the text.
C13_NonJsonDecodesToRaw ==
    (procs.pc \in {"admin", "client"} /\ BodyText(procs.r) /= NoValue
        /\ ~JsonValid(BodyText(procs.r)))
    => procs.result.body = Dict({<<"raw", BodyText(procs.r)>>})

\* C13 amended: in both engines every response decodes to a dict or a list;
\* a body that is not valid JSON decodes to the raw-text structure carrying
\* the text when fetch_url hands back no response object, and to the empty
\* dict when it hands back a response object.
C13_NonJsonDecodesToRawOrEmpty ==
    procs.pc \in {"admin", "client"} =>
       /\ procs.result.body.kind \in {"dict", "list"}
       /\ procs.result.status_code = procs.r.status
       /\ (BodyText(procs.r) /= NoValue /\ ~JsonValid(BodyText(procs.r))) =>
             procs.result.body =
                IF procs.r.response = "none"
                THEN Dict({<<"raw", BodyText(procs.r)>>})
                ELSE Dict({})

\* the client engine has decoded an HTML body to the raw-text structure
C13_Witness ==
    /\ procs.pc = "client"
    /\ procs.r.response = "none"
    /\ procs.r.info_body = "<html>"
    /\ procs.result.body = Dict({<<"raw", "<html>">>})

\* C14: with a minimum age of 0 the filter returns exactly, in input order,
\* the devices without a last-seen timestamp that pass the substring
\* filters; no device with a timestamp is matched.
C14_ZeroMatchesNeverSeen ==
    (procs.pc = "filtered" /\ procs.criteria.older_than_days = 0) =>
       /\ procs.matched =
             SelectSeq(procs.devices,
                       LAMBDA d : d.last_seen_ts = NoTs
                                  /\ PassesSubstrings(d, procs.criteria))
       /\ \A i \in 1..Len(procs.matched) : procs.matched[i].last_seen_ts = NoTs

\* a never-seen device is matched at threshold 0 and a device with a
\* timestamp that passes the substring filters is left out
C14_Witness ==
    /\ procs.pc = "filtered"
    /\ procs.criteria.older_than_days = 0
    /\ Len(procs.devices) = 2
    /\ procs.devices[1].last_seen_ts = CurrentTimeMs - DayMs
    /\ PassesSubstrings(procs.devices[1], procs.criteria)
    /\ procs.devices[2].last_seen_ts = NoTs
    /\ procs.matched = <<procs.devices[2]>>

C20_IdentifiersPercentEncoded ==
    procs.pc = "built" =>
       /\ \A i \in 1..Len(procs.endpoint) : procs.endpoint[i] \notin ReservedChars
       /\ \E i \in 1..Len(procs.endpoint) :
             SubSeq(procs.endpoint, i + 1, i + Len(procs.id)) = Quote(procs.id)

\* C16: resolve_room_identifier returns an identifier with a leading '!'
\* unchanged and asks the directory nothing; whatever it has resolved
\* resolves to itself without a lookup; and send_event, given the resolved
\* identifier, does not resolve again.
C16_ResolveIdempotent ==
    LET lookups == {i \in 1..Len(procs.sent) :
                       procs.sent[i].endpoint[1] = "directory/room/"}
    IN (procs.module = "matrix_event" /\ procs.state /= "absent" /\ ~procs.check_mode) =>
          /\ (StartsWith(procs.ident, "!") /\ procs.pc /= "start") =>
                procs.resolved = procs.ident /\ lookups = {}
          /\ Truthy(procs.resolved) =>
                /\ ~LooksUp(procs.resolved)
                /\ \A r \in DirResponses :
                      resolve_room_identifier(procs.resolved, r) = procs.resolved
          /\ Cardinality(lookups) <= 1

\* a room id was resolved to itself and the event is being sent, the PUT
\* the only request of the run
C16_Witness ==
    /\ procs.module = "matrix_event"
    /\ procs.ident = CanonicalRoomId
    /\ procs.resolved = CanonicalRoomId
    /\ procs.pc = "send_put"
    /\ Len(procs.sent) = 1
    /\ procs.sent[1].method = "PUT"

\* C17 as stated: in every path that resolves aliases (matrix_event,
\* synapse_room_info by alias, synapse_room) an identifier that starts with
\* neither '#' nor '!' makes the run fail with no request sent.
C17_InvalidIdentifierFailsOffline ==
    ( /\ ~StartsWith(procs.ident, "#") /\ ~StartsWith(procs.ident, "!")
      /\ \/ procs.module = "matrix_event" /\ procs.state /= "absent" /\ ~procs.check_mode
         \/ procs.module = "synapse_room"
         \/ procs.module = "synapse_room_info" /\ procs.by = "room_alias"
      /\ procs.pc /= "start" )
    => procs.sent = <<>> /\ procs.pc = "done" /\ procs.exit.kind = "fail"

\* C17 amended: for an identifier that starts with neither '#' nor '!',
\* matrix_event fails with no request sent; synapse_room_info looks up the
\* alias '#' + identifier + ':' + homeserver in the directory; synapse_room
\* asks the directory nothing and sends the identifier to the admin room
\* lookup.
C17_InvalidIdentifierPerModule ==
    (~StartsWith(procs.ident, "#") /\ ~StartsWith(procs.ident, "!") /\ procs.pc /= "start") =>
       /\ (procs.module = "matrix_event" /\ procs.state /= "absent" /\ ~procs.check_mode) =>
             procs.sent = <<>> /\ procs.pc = "done" /\ procs.exit.kind = "fail"
       /\ (procs.module = "synapse_room_info" /\ procs.by = "room_alias") =>
             /\ Len(procs.sent) >= 1
             /\ procs.sent[1] =
                   Req("client", "engine", "GET",
                       <<"directory/room/", "%23">> \o Quote(procs.ident)
                          \o <<"%3A">> \o Homeserver)
       /\ procs.module = "synapse_room" =>
             /\ Len(procs.sent) >= 1
             /\ procs.sent[1] = Req("admin", "engine", "GET", <<"rooms/">> \o procs.ident)
             /\ \A i \in 1..Len(procs.sent) :
                   procs.sent[i].endpoint[1] /= "directory/room/"

\* matrix_event has failed on a bare name without sending a request
C17_Witness ==
    /\ procs.module = "matrix_event"
    /\ procs.ident = <<"a">>
    /\ procs.pc = "done"
    /\ procs.exit = [kind |-> "fail", keys |-> {"msg", "room_id"}]
    /\ procs.sent = <<>>

\* C18 as stated: in matrix_event and synapse_room a directory response of
\* 200 yields the room_id field of its body, and a response of any other
\* status yields a failure that carries the status and the body.
C18_FailureCarriesStatusAndBody ==
    (procs.module \in {"matrix_event", "synapse_room"} /\ procs.dir /= NoDir) =>
       /\ procs.dir.status = 200 => procs.resolved = procs.dir.body.room_id
       /\ (procs.dir.status /= 200 /\ procs.exit.kind = "fail" /\ Len(procs.sent) = 1) =>
             {"status_code", "body"} \subseteq procs.exit.keys

\* C18 amended: in matrix_event, synapse_room and synapse_room_info a
\* directory response of 200 yields the room_id field of its body and any
\* other status yields None; a module that then fails passes only a message
\* (matrix_event also the identifier), not the status or the body. Only
\* send_event, asked to resolve an alias itself, returns the directory
\* result with its status and body.
C18_FailureCarriesNoStatus ==
    procs.dir /= NoDir =>
       /\ procs.module \in {"matrix_event", "synapse_room", "synapse_room_info"} =>
             /\ procs.dir.status = 200 => procs.resolved = procs.dir.body.room_id
             /\ procs.dir.status /= 200 =>
                   /\ procs.resolved = None
                   /\ (procs.exit.kind = "fail" /\ Len(procs.sent) = 1) =>
                         procs.exit.keys \subseteq {"msg", "room_id"}
       /\ (procs.module = "post_verification_event" /\ procs.dir.status /= 200) =>
             /\ procs.pc = "done"
             /\ Len(procs.sent) = 1
             /\ procs.exit.kind = "return"
             /\ {"status_code", "body"} \subseteq procs.exit.keys

\* matrix_event has failed after the directory answered 404, passing the
\* message and the identifier only
C18_Witness ==
    /\ procs.module = "matrix_event"
    /\ procs.dir.status = 404
    /\ procs.resolved = None
    /\ Len(procs.sent) = 1
    /\ procs.exit = [kind |-> "fail", keys |-> {"msg", "room_id"}]

\* C19: in every run of synapse_room no request to the admin surface has
\* '#' in its path; when the identifier is an alias, an admin request is
\* sent only after the alias was resolved, and with the resolved id.
C19_NoAliasOnAdminSurface ==
    procs.module = "synapse_room" =>
       \A i \in 1..Len(procs.sent) :
          procs.sent[i].surface = "admin" =>
             /\ \A j \in 1..Len(procs.sent[i].endpoint) : procs.sent[i].endpoint[j] /= "#"
             /\ StartsWith(procs.ident, "#") =>
                   /\ i > 1
                   /\ procs.sent[1].endpoint[1] = "directory/room/"
                   /\ procs.alias_resolved
                   /\ procs.room_id = procs.resolved
                   /\ SubSeq(procs.sent[i].endpoint, 2, 1 + Len(procs.resolved)) = procs.resolved

\* an alias was resolved and the members of the room are asked of the
\* admin surface by room id
C19_Witness ==
    /\ procs.module = "synapse_room"
    /\ StartsWith(procs.ident, "#")
    /\ procs.alias_resolved
    /\ procs.pc = "room_members"
    /\ Len(procs.sent) = 3
    /\ procs.sent[3] = Req("admin", "engine", "GET",
                           <<"rooms/">> \o CanonicalRoomId \o <<"/members">>)

\* C27: whenever a login has been treated as successful (the
\* re-authenticated flag is set, and with it a replay was issued), the
\* session token is a non-empty string; a 200 login response without an
\* access_token field never replaces the session token with an absent value.
C27_LoginSuccessHasToken ==
    reauthenticated => Truthy(access_token)

\* C28: send_event issues the event PUT only with a room id given by the
\* caller or returned by a successful alias resolution: when the directory
\* was asked, a PUT to a send endpoint is issued only after a 200 answer
\* whose body has a room_id, and the path carries that room id.
C28_PutOnlyWithRoomId ==
    (/\ procs.module \in {"matrix_event", "post_verification_event"}
     /\ \E i \in 1..Len(procs.sent) : procs.sent[i].method = "PUT")
    => /\ Truthy(procs.room_id)
       /\ procs.dir /= NoDir
          => procs.dir.status = 200 /\ Truthy(EngineRoomId(procs.dir))

\* C25: the filter criteria are AND-combined with case-insensitive
\* substring matching: every matched device, a never-seen device matched
\* through minimum age 0 included, contains the user-agent criterion in its
\* last-seen user agent and the display-name criterion in its display name,
\* ignoring case and taking an absent or null field as the empty string;
\* without an age criterion the matched devices are exactly those.
C25_CriteriaAndCombined ==
    procs.pc = "filtered" =>
       /\ \A i \in 1..Len(procs.matched) :
             /\ Truthy(procs.criteria.user_agent_filter) =>
                   Contains(Lower(procs.criteria.user_agent_filter),
                            IF procs.matched[i].last_seen_user_agent = None THEN <<>>
                            ELSE Lower(procs.matched[i].last_seen_user_agent))
             /\ Truthy(procs.criteria.display_name_filter) =>
                   Contains(Lower(procs.criteria.display_name_filter),
                            IF procs.matched[i].display_name = None THEN <<>>
                            ELSE Lower(procs.matched[i].display_name))
       /\ procs.criteria.older_than_days = NoDays =>
             procs.matched =
                SelectSeq(procs.devices,
                          LAMBDA d : PassesSubstrings(d, procs.criteria))

\* both criteria are supplied with minimum age 0; of two never-seen devices
\* the one whose fields contain both criteria in another case is matched
\* and the one that passes only the display-name criterion is not
C25_Witness ==
    /\ procs.pc = "filtered"
    /\ procs.criteria.older_than_days = 0
    /\ procs.criteria.user_agent_filter = <<"B">>
    /\ procs.criteria.display_name_filter = <<"a", "B">>
    /\ Len(procs.devices) = 2
    /\ procs.devices[1] = [display_name |-> <<"A", "b">>,
                           last_seen_user_agent |-> <<"b", "A">>,
                           last_seen_ts |-> NoTs]
    /\ procs.devices[2] = [display_name |-> <<"A", "b">>,
                           last_seen_user_agent |-> None,
                           last_seen_ts |-> NoTs]
    /\ procs.matched = <<procs.devices[1]>>

C22_ReturnedTransactionIdIsUsed ==
    (/\ procs.module = "matrix_event"
     /\ procs.exit.kind = "exit"
     /\ "transaction_id" \in procs.exit.keys)
    => /\ Len(procs.sent) > 0
       /\ procs.sent[Len(procs.sent)] =
             Req("client", "client", "PUT",
                 send_event_endpoint(procs.resolved, "m.room.message", procs.returned))

\* C26: within one module invocation every authenticated request carries
\* the session's current token at the time it is issued: after the session
\* token was replaced by a cached token at construction or by a successful
\* re-login, no later request (alias resolution, whoami and createRoom of
\* the room module included) is sent with the old token.
C26_RequestsCarrySessionToken ==
    \A i \in 1..Len(procs.auth) : procs.auth[i].carried = procs.auth[i].session

\* C23: for every lookup operation (user info, room info, room members,
\* room details, device list) a 404 is translated to an explicit absent
\* result (None, or the empty list for devices) that is not an error, and
\* every other non-200 status gives a result different from the absent one.
C23_AbsentDistinctFromFailure ==
    \A i \in 1..Len(procs.lookups) :
       LET l == procs.lookups[i]
           absent == IF l.op = "list_user_devices" THEN "empty list" ELSE "none"
       IN /\ l.status_code = 404 => l.value = absent
          /\ l.status_code \notin {200, 404} => l.value /= absent

\* C24: when matched devices are revoked outside check mode, every matched
\* device receives exactly one delete call, in matched order, whatever
\* failed before; the revoked and failed ids partition the matched ids;
\* changed is true iff a device was revoked; failures give a warning, not a
\* module failure.
C24_RevokeContinuesAfterFailure ==
    (/\ procs.module = "synapse_device_info"
     /\ procs.revoke_matched /\ ~procs.check_mode /\ procs.matched /= <<>>)
    => /\ procs.failed /= <<>> => procs.exit.kind /= "fail"
       /\ procs.pc \in {"device_delete", "done"}
       /\ procs.pc = "done" =>
             /\ procs.exit.kind = "exit"
             /\ procs.sent =
                   <<Req("admin", "engine", "GET",
                         list_user_devices_endpoint(procs.ident))>>
                   \o [i \in 1..Len(procs.matched) |->
                          Req("admin", "engine", "DELETE",
                              delete_device_endpoint(procs.ident,
                                                     procs.matched[i].device_id))]
             /\ Len(procs.revoked) + Len(procs.failed) = Len(procs.matched)
             /\ \A i \in 1..Len(procs.matched) :
                   (\E j \in 1..Len(procs.revoked) :
                       procs.revoked[j] = procs.matched[i].device_id)
                   /= (\E j \in 1..Len(procs.failed) :
                          procs.failed[j] = procs.matched[i].device_id)
             /\ procs.changed <=> procs.revoked /= <<>>
             /\ procs.warned <=> procs.failed /= <<>>

\* the first of two matched devices could not be revoked, the second was
\* revoked after it, and the run exits changed with a warning
C24_Witness ==
    /\ procs.module = "synapse_device_info"
    /\ procs.revoke_matched /\ ~procs.check_mode
    /\ Len(procs.matched) = 2
    /\ procs.pc = "done"
    /\ procs.exit.kind = "exit"
    /\ procs.failed = <<procs.matched[1].device_id>>
    /\ procs.revoked = <<procs.matched[2].device_id>>
    /\ Len(procs.sent) = 3
    /\ procs.changed
    /\ procs.warned

\* C29: a user lookup that yields 404 never makes a user module end in an
\* unhandled error: synapse_user_info with a user_id exits normally, and
\* synapse_user with state absent on a user that does not exist, outside
\* check mode, exits normally with changed false after fetching the final
\* state.
C29_AbsentUserHandled ==
    (/\ procs.module \in {"synapse_user", "synapse_user_info"}
     /\ procs.pc = "done"
     /\ \A i \in 1..Len(procs.lookups) : procs.lookups[i].status_code = 404
     /\ procs.lookups /= <<>>)
    => /\ procs.exit.kind = "exit"
       /\ procs.state = "absent" => ~procs.changed

\* C30: in check mode no module issues a state-changing request: the
\* requests of synapse_user, synapse_room and synapse_device_info are GET
\* lookups only, and matrix_event issues no request at all.
C30_CheckModeOnlyLooksUp ==
    procs.check_mode =>
       /\ \A i \in 1..Len(procs.sent) : procs.sent[i].method = "GET"
       /\ procs.module = "matrix_event" => procs.sent = <<>>

\* a check-mode run of synapse_user for a user that does not exist, with a
\* rate limit override, reports a change and has sent its one lookup only
C30_Witness ==
    /\ procs.module = "synapse_user"
    /\ procs.check_mode
    /\ procs.state = "present"
    /\ procs.ratelimit
    /\ procs.current_user = "none"
    /\ procs.pc = "done"
    /\ procs.exit.kind = "exit"
    /\ procs.changed
    /\ Len(procs.sent) = 1
    /\ procs.sent[1].method = "GET"
====
